---------------------------- MODULE Spec2Model ----------------------------
(***************************************************************************)
(* Model of the range (arithmetic) entropy coder of rav1e, src/ec.rs:      *)
(* the encoder od_ec_enc behind Writer (bool, cdf, symbol, done), the      *)
(* adaptive CDF update, and the range decoder the tests drive through      *)
(* Reader (od_ec_dec_init, od_ec_decode_bool_q15, od_ec_decode_cdf_q15).   *)
(*                                                                         *)
(* Integers are modelled at their Rust width: a cast `as u16` is % 2^16,   *)
(* `as u8` is % 2^8.  The u32 window `low` is kept as a plain natural: the *)
(* model checker's integers end at 2^31 - 1 and it stops with an overflow  *)
(* error should a value pass that, so a run that completes has computed no *)
(* u32 value that wraps.  The decoder's 32-bit window `dif` does use all   *)
(* 32 bits and is therefore kept as two 16-bit halves.                     *)
(***************************************************************************)
EXTENDS Integers, Sequences, FiniteSets, TLC

VARIABLES
    low,        \* od_ec_enc.low  : u32, the low end of the current range
    rng,        \* od_ec_enc.rng  : u16, the number of values in the range
    cnt,        \* od_ec_enc.cnt  : i16, the number of bits of data in low
    precarry,   \* od_ec_enc.precarry : Vec<u16>, bytes with carry flags
    cdf,        \* the caller's adaptive table handed to Writer::symbol
    status,     \* "ok", or "panicked" once an assert! has failed
    ndone,      \* how many times Writer::done has returned
    out,        \* the Vec<u8> the last Writer::done returned
    calls,      \* the calls made on the Writer so far, in order
    pre,        \* the encoder as it was when the last call was entered
    dec,        \* the Reader's od_ec_dec, once Reader::new has run
    dcdf,       \* the decoder side's copy of the adaptive table
    decoded     \* the values the Reader has returned so far, in order

vars == <<low, rng, cnt, precarry, cdf, status, ndone, out, calls, pre,
          dec, dcdf, decoded>>

encVars == <<low, rng, cnt, precarry>>
decVars == <<dec, dcdf, decoded>>

---------------------------------------------------------------------------
(* Bounds of the model.                                                    *)

\* The most coding calls (bool, cdf, symbol) made on one Writer.
MaxCalls == 3

\* The most calls in a run of adaptive calls and bit calls.
MaxSymbols == 4

\* The most coding calls when the caller may break the contract.
MaxAnyCalls == 2

\* The most Writer::done calls when the caller may break the contract.
MaxDone == 2

\* The most Writer::symbol calls in a long run on one table.
MaxLongCalls == 34

---------------------------------------------------------------------------
(* Machine arithmetic.                                                     *)

Pow2(n) == 2 ^ n

\* x >> n on an unsigned value.
Shr(x, n) == x \div Pow2(n)

\* x << n on a value whose shifted bits all fit the window.
Shl(x, n) == x * Pow2(n)

U16(x) == x % 65536

U8(x) == x % 256

RECURSIVE BitAnd(_, _)
BitAnd(a, b) ==
    IF a = 0 \/ b = 0 THEN 0
    ELSE (a % 2) * (b % 2) + 2 * BitAnd(a \div 2, b \div 2)

RECURSIVE BitOr(_, _)
BitOr(a, b) ==
    IF a = 0 THEN b
    ELSE IF b = 0 THEN a
    ELSE (IF a % 2 = 1 \/ b % 2 = 1 THEN 1 ELSE 0) + 2 * BitOr(a \div 2, b \div 2)

RECURSIVE BitXor(_, _)
BitXor(a, b) ==
    IF a = 0 THEN b
    ELSE IF b = 0 THEN a
    ELSE ((a + b) % 2) + 2 * BitXor(a \div 2, b \div 2)

\* x & !m on a u32, for any mask m: the bits of x that are not in m.
AndNot(x, m) == x - BitAnd(x, m)

\* The number of significant bits of x (0 for 0).
RECURSIVE BitLen(_)
BitLen(x) == IF x = 0 THEN 0 ELSE 1 + BitLen(x \div 2)

\* u16::leading_zeros and u32::leading_zeros.
LeadingZeros16(x) == 16 - BitLen(x)
LeadingZeros32(x) == 32 - BitLen(x)

---------------------------------------------------------------------------
(* The encoder, od_ec_enc.  An encoder value is a record                   *)
(* [low, rng, cnt, precarry]; an operation that can fail an assert!        *)
(* returns [ok, enc], with enc the encoder as the panic leaves it.  A      *)
(* call whose outcome depends on the build (an arithmetic overflow, which  *)
(* panics with overflow checks and wraps without them) returns             *)
(* [ok, enc, wraps]: ok and enc are the panic of the checked build and     *)
(* wraps is the encoder the unchecked build returns with.                  *)

\* od_ec_enc::new
EncNew == [low |-> 0, rng |-> 32768, cnt |-> -9, precarry |-> <<>>]

Enc == [low |-> low, rng |-> rng, cnt |-> cnt, precarry |-> precarry]

Ok(e) == [ok |-> TRUE, enc |-> e]
Panic(e) == [ok |-> FALSE, enc |-> e]
ShiftOverflow(e, w) == [ok |-> FALSE, enc |-> e, wraps |-> w]
Wraps(r) == "wraps" \in DOMAIN r

\* od_ec_enc::od_icdf
od_icdf(x) == 32768 - x

\* od_ec_enc::od_ilog_nz
od_ilog_nz(x) == 16 - LeadingZeros16(x)

\* The write-back of od_ec_enc_normalize (lines 129-131) with the window l,
\* the range r, the shift d, the count s and the buffer pc that lines
\* 111-128 have arrived at; the pushes of lines 120 and 125 are in pc
\* already.  `self.low = low << d` is written first.  `rng << d` on a u16
\* with d = 16 (rng = 0) is a shift overflow: with overflow checks it
\* panics there, self.rng and self.cnt as they were; without them the
\* shift amount wraps to d & 15 = 0 and the call returns.
WriteBack(e, l, r, d, s, pc) ==
    IF d >= 16
    THEN ShiftOverflow([e EXCEPT !.low = Shl(l, d), !.precarry = pc],
                       [low |-> Shl(l, d), rng |-> U16(Shl(r, d % 16)),
                        cnt |-> s, precarry |-> pc])
    ELSE Ok([low |-> Shl(l, d), rng |-> U16(Shl(r, d)),
             cnt |-> s, precarry |-> pc])

\* od_ec_enc_normalize without the write-back `self.cnt = s`.
MutNormalizeCntNotStored(e, low0, r) ==
    LET c == e.cnt
        d == 16 - od_ilog_nz(r)
        s == c + d
    IN  IF s >= 0 THEN
            LET c1 == c + 16
                m1 == Shl(1, c1) - 1
                two == s >= 8
                pc1 == IF two THEN Append(e.precarry, U16(Shr(low0, c1)))
                       ELSE e.precarry
                low1 == IF two THEN BitAnd(low0, m1) ELSE low0
                c2 == IF two THEN c1 - 8 ELSE c1
                m2 == IF two THEN Shr(m1, 8) ELSE m1
                pc2 == Append(pc1, U16(Shr(low1, c2)))
                low2 == BitAnd(low1, m2)
            IN  WriteBack(e, low2, r, d, c, pc2)
        ELSE WriteBack(e, low0, r, d, c, e.precarry)

\* od_ec_enc_normalize storing the range as handed in, without `<< d`:
\* no shift of the range is left to overflow.
MutNormalizeRngUnshifted(e, low0, r) ==
    LET c == e.cnt
        d == 16 - od_ilog_nz(r)
        s == c + d
    IN  IF s >= 0 THEN
            LET c1 == c + 16
                m1 == Shl(1, c1) - 1
                two == s >= 8
                pc1 == IF two THEN Append(e.precarry, U16(Shr(low0, c1)))
                       ELSE e.precarry
                low1 == IF two THEN BitAnd(low0, m1) ELSE low0
                c2 == IF two THEN c1 - 8 ELSE c1
                m2 == IF two THEN Shr(m1, 8) ELSE m1
                pc2 == Append(pc1, U16(Shr(low1, c2)))
                s2 == c2 + d - 24
                low2 == BitAnd(low1, m2)
            IN  Ok([low |-> Shl(low2, d), rng |-> r,
                    cnt |-> s2, precarry |-> pc2])
        ELSE Ok([low |-> Shl(low0, d), rng |-> r,
                 cnt |-> s, precarry |-> e.precarry])

\* od_ec_enc_normalize without `low &= m`: the bits already pushed to the
\* buffer stay in the window.
MutNormalizeNoMask(e, low0, r) ==
    LET c == e.cnt
        d == 16 - od_ilog_nz(r)
        s == c + d
    IN  IF s >= 0 THEN
            LET c1 == c + 16
                two == s >= 8
                pc1 == IF two THEN Append(e.precarry, U16(Shr(low0, c1)))
                       ELSE e.precarry
                c2 == IF two THEN c1 - 8 ELSE c1
                pc2 == Append(pc1, U16(Shr(low0, c2)))
                s2 == c2 + d - 24
            IN  WriteBack(e, low0, r, d, s2, pc2)
        ELSE WriteBack(e, low0, r, d, s, e.precarry)

\* od_ec_enc_normalize resolving a carry as soon as it shows: a unit above
\* 0xFF is pushed as its byte and the carry is added to the entry before.
MutNormalizeCarryInPlace(e, low0, r) ==
    LET c == e.cnt
        d == 16 - od_ilog_nz(r)
        s == c + d
        Push(pc, v) == IF v > 255 /\ Len(pc) > 0
                       THEN Append([pc EXCEPT ![Len(pc)] = pc[Len(pc)] + 1], v % 256)
                       ELSE Append(pc, v)
    IN  IF s >= 0 THEN
            LET c1 == c + 16
                m1 == Shl(1, c1) - 1
                two == s >= 8
                pc1 == IF two THEN Push(e.precarry, U16(Shr(low0, c1)))
                       ELSE e.precarry
                low1 == IF two THEN BitAnd(low0, m1) ELSE low0
                c2 == IF two THEN c1 - 8 ELSE c1
                m2 == IF two THEN Shr(m1, 8) ELSE m1
                pc2 == Push(pc1, U16(Shr(low1, c2)))
                s2 == c2 + d - 24
                low2 == BitAnd(low1, m2)
            IN  WriteBack(e, low2, r, d, s2, pc2)
        ELSE WriteBack(e, low0, r, d, s, e.precarry)

\* od_ec_enc::od_ec_enc_normalize(low0, rng): lines 111-128 here, lines
\* 129-131 in WriteBack.  With rng = 0 the shift is d = 16 and the units
\* are pushed as for any other d before `rng << d` overflows.
od_ec_enc_normalize(e, low0, r) ==
    LET c == e.cnt
        d == 16 - od_ilog_nz(r)
        s == c + d
    IN  IF s >= 0 THEN
            LET c1 == c + 16
                m1 == Shl(1, c1) - 1
                two == s >= 8
                pc1 == IF two THEN Append(e.precarry, U16(Shr(low0, c1)))
                       ELSE e.precarry
                low1 == IF two THEN BitAnd(low0, m1) ELSE low0
                c2 == IF two THEN c1 - 8 ELSE c1
                m2 == IF two THEN Shr(m1, 8) ELSE m1
                pc2 == Append(pc1, U16(Shr(low1, c2)))
                s2 == c2 + d - 24
                low2 == BitAnd(low1, m2)
            IN  WriteBack(e, low2, r, d, s2, pc2)
        ELSE WriteBack(e, low0, r, d, s, e.precarry)

\* od_ec_encode_bool_q15 splitting the range with the full product
\* (r * f) >> 15 instead of ((r >> 8) * f) >> 7.
MutBoolFullProduct(e, val, f) ==
    IF ~(0 < f) THEN Panic(e)
    ELSE IF ~(f < 32768) THEN Panic(e)
    ELSE
        LET l == e.low
            r == e.rng
        IN  IF ~(32768 <= r) THEN Panic(e)
            ELSE
                LET v == Shr(r * f, 15)
                    l1 == IF val THEN l + (r - v) ELSE l
                    r1 == IF val THEN v ELSE r - v
                IN  od_ec_enc_normalize(e, l1, U16(r1))

\* od_ec_encode_bool_q15 with the second assertion written f <= 32768.
MutBoolAcceptsTop(e, val, f) ==
    IF ~(0 < f) THEN Panic(e)
    ELSE IF ~(f <= 32768) THEN Panic(e)
    ELSE
        LET l == e.low
            r == e.rng
        IN  IF ~(32768 <= r) THEN Panic(e)
            ELSE
                LET v == Shr(Shr(r, 8) * f, 7)
                    l1 == IF val THEN l + (r - v) ELSE l
                    r1 == IF val THEN v ELSE r - v
                IN  od_ec_enc_normalize(e, l1, U16(r1))

\* od_ec_encode_bool_q15 with the two parts the wrong way round: true
\* takes the lower part of the interval and false the upper one.
MutBoolSwapped(e, val, f) ==
    IF ~(0 < f) THEN Panic(e)
    ELSE IF ~(f < 32768) THEN Panic(e)
    ELSE
        LET l == e.low
            r == e.rng
        IN  IF ~(32768 <= r) THEN Panic(e)
            ELSE
                LET v == Shr(Shr(r, 8) * f, 7)
                    l1 == IF val THEN l ELSE l + v
                    r1 == IF val THEN v ELSE r - v
                IN  od_ec_enc_normalize(e, l1, U16(r1))

\* The narrowing of od_ec_encode_bool_q15 (lines 53-55): the values of l
\* and r handed to the normalisation, r before the cast to u16.
BoolInterval(l, r, val, f) ==
    LET v == Shr(Shr(r, 8) * f, 7)
    IN  [low |-> IF val THEN l + (r - v) ELSE l,
         rng |-> IF val THEN v ELSE r - v]

\* od_ec_enc::od_ec_encode_bool_q15(val, f)
od_ec_encode_bool_q15(e, val, f) ==
    IF ~(0 < f) THEN Panic(e)
    ELSE IF ~(f < 32768) THEN Panic(e)
    ELSE
        LET l == e.low
            r == e.rng
        IN  IF ~(32768 <= r) THEN Panic(e)
            ELSE LET n == BoolInterval(l, r, val, f)
                 IN  od_ec_enc_normalize(e, n.low, U16(n.rng))

\* od_ec_encode_q15 without the branch for fl = 32768: the first symbol
\* is narrowed with u = ((r >> 8) * 32768) >> 7 like any other.
MutQ15NoTopBranch(e, fl, fh) ==
    LET l == e.low
        r == e.rng
    IN  IF ~(32768 <= r) THEN Panic(e)
        ELSE IF ~(fh < fl) THEN Panic(e)
        ELSE IF ~(fl <= 32768) THEN Panic(e)
        ELSE
            LET u == Shr(Shr(r, 8) * fl, 7)
                v == Shr(Shr(r, 8) * fh, 7)
            IN  od_ec_enc_normalize(e, l + (r - u), U16(u - v))

\* The narrowing of od_ec_encode_q15 with the low end moved up by r - v,
\* past the symbol's own part, instead of by r - u.
MutQ15LowPastSymbol(l, r, fl, fh) ==
    IF fl < 32768 THEN
        LET u == Shr(Shr(r, 8) * fl, 7)
            v == Shr(Shr(r, 8) * fh, 7)
        IN  [low |-> l + (r - v), rng |-> u - v]
    ELSE [low |-> l, rng |-> r - Shr(Shr(r, 8) * fh, 7)]

\* The narrowing of od_ec_encode_q15 (lines 89-96): the values of l and r
\* handed to the normalisation, r before the cast to u16.
Q15Interval(l, r, fl, fh) ==
    IF fl < 32768 THEN
        LET u == Shr(Shr(r, 8) * fl, 7)
            v == Shr(Shr(r, 8) * fh, 7)
        IN  [low |-> l + (r - u), rng |-> u - v]
    ELSE [low |-> l, rng |-> r - Shr(Shr(r, 8) * fh, 7)]

\* od_ec_enc::od_ec_encode_q15(fl, fh)
od_ec_encode_q15(e, fl, fh) ==
    LET l == e.low
        r == e.rng
    IN  IF ~(32768 <= r) THEN Panic(e)
        ELSE IF ~(fh < fl) THEN Panic(e)
        ELSE IF ~(fl <= 32768) THEN Panic(e)
        ELSE LET n == Q15Interval(l, r, fl, fh)
             IN  od_ec_enc_normalize(e, n.low, U16(n.rng))

\* The arguments od_ec_encode_cdf_q15 hands on for symbol s (line 68):
\* fl is the threshold before s, or od_icdf(0) for the first symbol, and
\* fh the threshold of s.
CdfFl(s, t) == IF s > 0 THEN t[s] ELSE od_icdf(0)
CdfFh(s, t) == t[s + 1]

\* od_ec_enc::od_ec_encode_cdf_q15(s, cdf).  Indexing is 0-based in the
\* source: cdf[i] there is t[i + 1] here.  An index outside the slice
\* panics (bounds check), as does cdf.len() - 1 on an empty slice.
od_ec_encode_cdf_q15(e, s, t) ==
    IF Len(t) = 0 THEN Panic(e)
    ELSE IF ~(t[Len(t)] = od_icdf(32768)) THEN Panic(e)
    ELSE IF s >= Len(t) THEN Panic(e)
    ELSE od_ec_encode_q15(e, CdfFl(s, t), CdfFh(s, t))

\* The interval od_ec_encode_cdf_q15 narrows to for symbol s of the slice
\* t, before the normalisation.
CdfInterval(e, s, t) == Q15Interval(e.low, e.rng, CdfFl(s, t), CdfFh(s, t))

\* The mask search rounding low down to the mask, e = l & !m, instead of
\* up, e = (l + m) & !m.
RECURSIVE MutDoneSearchRoundDown(_, _, _, _)
MutDoneSearchRoundDown(l, r, s, m) ==
    LET e == AndNot(l, m)
    IN  IF BitOr(e, m) >= l + r
        THEN MutDoneSearchRoundDown(l, r, s + 1, Shr(m, 1))
        ELSE [s |-> s, m |-> m, e |-> e]

\* The mask search of od_ec_enc_done (lines 142-150): from s = 9 and
\* m = 0x7FFF, halve the mask until the block [e, e | m] lies below l + r.
RECURSIVE DoneSearch(_, _, _, _)
DoneSearch(l, r, s, m) ==
    LET e == AndNot(l + m, m)
    IN  IF BitOr(e, m) >= l + r
        THEN DoneSearch(l, r, s + 1, Shr(m, 1))
        ELSE [s |-> s, m |-> m, e |-> e]

\* The flush loop of od_ec_enc_done (lines 156-164), entered with s > 0.
RECURSIVE DoneFlush(_, _, _, _, _)
DoneFlush(pc, e, s, c, n) ==
    LET pc1 == Append(pc, U16(Shr(e, c + 16)))
        e1 == BitAnd(e, n)
        s1 == s - 8
        c1 == c - 8
        n1 == Shr(n, 8)
    IN  IF s1 <= 0 THEN pc1 ELSE DoneFlush(pc1, e1, s1, c1, n1)

\* The backward carry pass with the shift of the running carry left out:
\* every unit is truncated to its byte and its carry bit is dropped.
RECURSIVE MutCarryPassDropsCarry(_, _, _, _)
MutCarryPassDropsCarry(pc, offs, c, done) ==
    IF offs > 0
    THEN LET c1 == U16(pc[offs] + c)
         IN  MutCarryPassDropsCarry(pc, offs - 1, 0, <<U8(c1)>> \o done)
    ELSE done

\* The backward carry pass of od_ec_enc_done (lines 167-175): bytes
\* out[offs .. len-1] are already written to `done`, c is the running
\* carry (a u16), offs counts the entries still to visit.
RECURSIVE CarryPass(_, _, _, _)
CarryPass(pc, offs, c, done) ==
    IF offs > 0
    THEN LET c1 == U16(pc[offs] + c)
         IN  CarryPass(pc, offs - 1, Shr(c1, 8), <<U8(c1)>> \o done)
    ELSE done

\* od_ec_enc::od_ec_enc_done: the encoder afterwards (only precarry
\* grows) and the bytes returned.
od_ec_enc_done(e) ==
    LET l == e.low
        r == e.rng
        c == e.cnt
        f == DoneSearch(l, r, 9, 32767)
        s == f.s + c
        pc == IF s > 0
              THEN DoneFlush(e.precarry, f.e, s, c, Shl(1, c + 16) - 1)
              ELSE e.precarry
    IN  [enc |-> [e EXCEPT !.precarry = pc],
         out |-> CarryPass(pc, Len(pc), 0, <<>>)]

\* The shifts od_ec_enc_normalize(low0, r) executes on encoder e, each as
\* the amount shifted by and the width in bits of the shifted operand:
\* low << d and rng << d (lines 129-130), then 1 << c and low >> c with
\* c = cnt + 16 when a unit is pushed (lines 118, 125), and low >> c with
\* the same c before c -= 8 and m >>= 8 when two are (lines 120-123).
NormalizeShifts(e, r) ==
    LET c == e.cnt
        d == 16 - od_ilog_nz(r)
        s == c + d
    IN  {[by |-> d, bits |-> 32], [by |-> d, bits |-> 16]}
        \cup (IF s >= 0 THEN {[by |-> c + 16, bits |-> 32]} ELSE {})
        \cup (IF s >= 8 THEN {[by |-> c + 8, bits |-> 32], [by |-> 8, bits |-> 32]}
              ELSE {})

\* The shifts od_ec_enc_done executes on encoder e: 1 << (c + 16) and
\* e >> (c + 16) with n >>= 8 when the flush loop is entered (lines
\* 154-161), and e >> (c + 16) with c eight less when it goes round twice.
DoneShifts(e) ==
    LET c == e.cnt
        s == DoneSearch(e.low, e.rng, 9, 32767).s + c
    IN  (IF s > 0 THEN {[by |-> c + 16, bits |-> 32], [by |-> 8, bits |-> 32]}
         ELSE {})
        \cup (IF s > 8 THEN {[by |-> c + 8, bits |-> 32]} ELSE {})

---------------------------------------------------------------------------
(* Writer.  A table is a sequence of nsymbs thresholds followed by the     *)
(* usage counter: cdf[i] in the source is t[i + 1] here.                   *)

\* The loop of update_cdf taking diff off the target at every index from
\* val on (i >= val) instead of once, at i == val.
RECURSIVE MutUpdateLoopDiffFromVal(_, _, _, _, _, _, _, _)
MutUpdateLoopDiffFromVal(t, i, val, nsymbs, tmp, diff, rate, tmp0) ==
    IF i >= nsymbs - 1 THEN t
    ELSE
        LET tmp1 == IF i >= val THEN tmp - diff ELSE tmp
            prev_cdf == t[i + 1]
            new == U16(prev_cdf + ((tmp1 - prev_cdf) \div Pow2(rate)))
        IN  MutUpdateLoopDiffFromVal([t EXCEPT ![i + 1] = new], i + 1, val,
                                     nsymbs, tmp1 - tmp0, diff, rate, tmp0)

\* The loop of update_cdf without `tmp -= tmp0`: every threshold on one
\* side of the coded symbol is drawn to the same target.
RECURSIVE MutUpdateLoopOneTarget(_, _, _, _, _, _, _, _)
MutUpdateLoopOneTarget(t, i, val, nsymbs, tmp, diff, rate, tmp0) ==
    IF i >= nsymbs - 1 THEN t
    ELSE
        LET tmp1 == IF i = val THEN tmp - diff ELSE tmp
            prev_cdf == t[i + 1]
            new == U16(prev_cdf + ((tmp1 - prev_cdf) \div Pow2(rate)))
        IN  MutUpdateLoopOneTarget([t EXCEPT ![i + 1] = new], i + 1, val,
                                   nsymbs, tmp1, diff, rate, tmp0)

\* The loop of update_cdf taking diff off the target one index late, at
\* i == val + 1: the threshold of the coded symbol is drawn upwards.
RECURSIVE MutUpdateLoopDiffLate(_, _, _, _, _, _, _, _)
MutUpdateLoopDiffLate(t, i, val, nsymbs, tmp, diff, rate, tmp0) ==
    IF i >= nsymbs - 1 THEN t
    ELSE
        LET tmp1 == IF i = val + 1 THEN tmp - diff ELSE tmp
            prev_cdf == t[i + 1]
            new == U16(prev_cdf + ((tmp1 - prev_cdf) \div Pow2(rate)))
        IN  MutUpdateLoopDiffLate([t EXCEPT ![i + 1] = new], i + 1, val,
                                  nsymbs, tmp1 - tmp0, diff, rate, tmp0)

\* The loop of Writer::update_cdf (lines 202-209), from index i on.
RECURSIVE UpdateLoop(_, _, _, _, _, _, _, _)
UpdateLoop(t, i, val, nsymbs, tmp, diff, rate, tmp0) ==
    IF i >= nsymbs - 1 THEN t
    ELSE
        LET tmp1 == IF i = val THEN tmp - diff ELSE tmp
            prev_cdf == t[i + 1]
            new == U16(prev_cdf + ((tmp1 - prev_cdf) \div Pow2(rate)))
        IN  UpdateLoop([t EXCEPT ![i + 1] = new], i + 1, val, nsymbs,
                       tmp1 - tmp0, diff, rate, tmp0)

\* update_cdf with the ceiling test written cdf[nsymbs] <= 32.
MutUpdateCounterInclusive(t, val, nsymbs) ==
    LET rate == 4 + (IF t[nsymbs + 1] > 31 THEN 1 ELSE 0)
                  + BitXor(31, LeadingZeros32(nsymbs))
        rate2 == 5
        tmp0 == Shl(1, rate2)
        tmp == 32768 - tmp0
        diff == ((32768 - Shl(nsymbs, rate2)) \div Pow2(rate)) * Pow2(rate)
        t1 == UpdateLoop(t, 0, val, nsymbs, tmp, diff, rate, tmp0)
    IN  IF t1[nsymbs + 1] <= 32
        THEN [t1 EXCEPT ![nsymbs + 1] = t1[nsymbs + 1] + 1]
        ELSE t1

\* Writer::update_cdf(cdf, val, nsymbs).  >> on a negative i32 is an
\* arithmetic shift: division by 2^rate rounding toward minus infinity.
update_cdf(t, val, nsymbs) ==
    LET rate == 4 + (IF t[nsymbs + 1] > 31 THEN 1 ELSE 0)
                  + BitXor(31, LeadingZeros32(nsymbs))
        rate2 == 5
        tmp0 == Shl(1, rate2)
        tmp == 32768 - tmp0
        diff == ((32768 - Shl(nsymbs, rate2)) \div Pow2(rate)) * Pow2(rate)
        t1 == UpdateLoop(t, 0, val, nsymbs, tmp, diff, rate, tmp0)
    IN  IF t1[nsymbs + 1] < 32
        THEN [t1 EXCEPT ![nsymbs + 1] = t1[nsymbs + 1] + 1]
        ELSE t1

\* Writer::cdf(s, cdf)
WriterCdf(e, s, t) == od_ec_encode_cdf_q15(e, s, t)

\* Writer::bool(val, f)
WriterBool(e, val, f) == od_ec_encode_bool_q15(e, val, f)

\* Writer::done()
WriterDone(e) == od_ec_enc_done(e)

\* The result of Writer::symbol from the result r of its coding call, the
\* table t0 a panic of that call leaves and the table t1 behind its return.
SymbolResult(r, t0, t1) ==
    IF r.ok THEN [ok |-> TRUE, enc |-> r.enc, cdf |-> t1]
    ELSE IF Wraps(r)
    THEN [ok |-> FALSE, enc |-> r.enc, cdf |-> t0,
          wraps |-> r.wraps, wrapscdf |-> t1]
    ELSE [ok |-> FALSE, enc |-> r.enc, cdf |-> t0]

\* Writer::symbol updating the table first and coding with the updated
\* thresholds.
MutSymbolUpdateFirst(e, s, t, nsymbs) ==
    LET t1 == update_cdf(t, s, nsymbs)
        r == WriterCdf(e, s, SubSeq(t1, 1, nsymbs))
    IN  SymbolResult(r, t1, t1)

\* Writer::symbol coding with the whole table, `cdf` in place of
\* `&cdf[..nsymbs]`: the counter cell is taken for the last threshold.
MutSymbolWholeTable(e, s, t, nsymbs) ==
    LET r == WriterCdf(e, s, t)
    IN  SymbolResult(r, t, update_cdf(t, s, nsymbs))

\* Writer::symbol(s, cdf, nsymbs): the encoder and the table afterwards.
\* The table is left as it was when the coding call panics.
WriterSymbol(e, s, t, nsymbs) ==
    LET r == WriterCdf(e, s, SubSeq(t, 1, nsymbs))
    IN  SymbolResult(r, t, update_cdf(t, s, nsymbs))

---------------------------------------------------------------------------
(* The decoder behind the tests' Reader: od_ec_dec_init,                   *)
(* od_ec_decode_bool_q15 and od_ec_decode_cdf_q15 over an od_ec_dec with a *)
(* 32-bit window.  The window dif is held as dif = hi * 2^16 + lo; it      *)
(* stores the distance from the top of the range, so the bits of the       *)
(* stream are XORed in and ones are shifted in at the bottom.  Past the    *)
(* end of the buffer nothing is XORed in: the stream reads as zero bits.   *)

OD_EC_WINDOW_SIZE == 32
OD_EC_LOTS_OF_BITS == 16384

\* The part of (b << s) in the upper and in the lower half of the window.
ShlHi(b, s) == IF s >= 16 THEN Shl(b, s - 16) ELSE Shr(b, 16 - s)
ShlLo(b, s) == IF s >= 16 THEN 0 ELSE U16(Shl(b, s))

\* The loop of od_ec_dec_refill: for (; s >= 0 && bptr < end; s -= 8, bptr++).
RECURSIVE RefillLoop(_, _, _)
RefillLoop(d, buf, s) ==
    IF s >= 0 /\ d.bptr < Len(buf)
    THEN LET b == buf[d.bptr + 1]
         IN  RefillLoop([d EXCEPT !.hi = BitXor(d.hi, ShlHi(b, s)),
                                  !.lo = BitXor(d.lo, ShlLo(b, s)),
                                  !.cnt = d.cnt + 8,
                                  !.bptr = d.bptr + 1],
                        buf, s - 8)
    ELSE d

\* od_ec_dec_refill
od_ec_dec_refill(d, buf) ==
    LET d1 == RefillLoop(d, buf, OD_EC_WINDOW_SIZE - 9 - (d.cnt + 15))
    IN  IF d1.bptr >= Len(buf)
        THEN [d1 EXCEPT !.tell_offs = d1.tell_offs + OD_EC_LOTS_OF_BITS - d1.cnt,
                        !.cnt = OD_EC_LOTS_OF_BITS]
        ELSE d1

\* od_ec_dec_init(dec, buf, storage)
od_ec_dec_init(buf) ==
    od_ec_dec_refill([live |-> TRUE, hi |-> 32767, lo |-> 65535,
                      rng |-> 32768, cnt |-> -15, bptr |-> 0,
                      tell_offs |-> 10 - (OD_EC_WINDOW_SIZE - 8)], buf)

\* No Reader yet.  Reader::new creates dec with mem::uninitialized() and
\* hands it to od_ec_dec_init before it returns, which writes every field:
\* the fields hold no defined value until then and none is read, so the
\* record carries none of them, only the mark that no decoder is set up.
NoDec == [live |-> FALSE]

\* od_ec_dec_normalize(dec, dif, rng, ret): dif = ((dif + 1) << d) - 1,
\* which shifts d one bits in at the bottom of the window.
od_ec_dec_normalize(d, hi, lo, r, ret, buf) ==
    LET sh == 16 - BitLen(r)
        d1 == [d EXCEPT !.cnt = d.cnt - sh,
                        !.hi = U16(Shl(hi, sh) + Shr(lo, 16 - sh)),
                        !.lo = U16(Shl(lo, sh)) + (Pow2(sh) - 1),
                        !.rng = U16(Shl(r, sh))]
    IN  [dec |-> IF d1.cnt < 0 THEN od_ec_dec_refill(d1, buf) ELSE d1,
         ret |-> ret]

\* od_ec_decode_bool_q15(dec, f)
od_ec_decode_bool_q15(d, f, buf) ==
    LET r == d.rng
        v == Shr(Shr(r, 8) * f, 7)
    IN  IF d.hi >= v
        THEN od_ec_dec_normalize(d, d.hi - v, d.lo, r - v, 0, buf)
        ELSE od_ec_dec_normalize(d, d.hi, d.lo, v, 1, buf)

\* The search of od_ec_decode_cdf_q15:
\* do { u = v; v = (r >> 8) * icdf[++ret] >> 7; } while (c < v);
RECURSIVE CdfSearch(_, _, _, _, _)
CdfSearch(icdf, r, c, v, ret) ==
    LET u == v
        ret1 == ret + 1
        v1 == IF ret1 < Len(icdf) THEN Shr(Shr(r, 8) * icdf[ret1 + 1], 7) ELSE 0
    IN  IF c < v1 THEN CdfSearch(icdf, r, c, v1, ret1)
        ELSE [u |-> u, v |-> v1, ret |-> ret1]

\* od_ec_decode_cdf_q15(dec, icdf, nsyms)
od_ec_decode_cdf_q15(d, icdf, nsyms, buf) ==
    LET r == d.rng
        f == CdfSearch(icdf, r, d.hi, r, -1)
    IN  od_ec_dec_normalize(d, d.hi - f.v, d.lo, f.u - f.v, f.ret, buf)

\* Reader::bool(f)
ReaderBool(d, f, buf) ==
    LET r == od_ec_decode_bool_q15(d, f, buf)
    IN  [dec |-> r.dec, ret |-> r.ret # 0]

\* Reader::cdf(icdf): nsyms = icdf.len() - 1
ReaderCdf(d, icdf, buf) == od_ec_decode_cdf_q15(d, icdf, Len(icdf) - 1, buf)

\* The adaptive decode call: decode with the first nsymbs cells, then run
\* the update of Writer::update_cdf on the decoder's table.
ReaderSymbol(d, t, nsymbs, buf) ==
    LET r == od_ec_decode_cdf_q15(d, SubSeq(t, 1, nsymbs), nsymbs, buf)
    IN  [dec |-> r.dec, ret |-> r.ret, cdf |-> update_cdf(t, r.ret, nsymbs)]

---------------------------------------------------------------------------
(* The inputs the callers draw from.                                       *)

\* Bit probabilities inside the contract: the two extremes, a small one
\* and one next to a half.
FValues == {1, 3, 16383, 32767}

\* The bit probability of the bit calls made between adaptive calls.
AdaptFValues == {16383}

\* Bit probabilities of any u16 kind: also 0, 32768 and u16::MAX.
FAny == FValues \cup {0, 32768, 65535}

\* The table of the tests cdf and mixed, passed whole to Writer::cdf.
TestCdf == <<7296, 3819, 1716, 0, 0>>

\* Tables for the non-adaptive call, passed the way the tests pass them:
\* the thresholds followed by the counter cell.
CdfTables == {TestCdf}

\* The symbols a table passed that way can code.
CdfSymbols(t) == 0 .. (Len(t) - 2)

\* A table that is not monotone at its second threshold.
NonMonotoneCdf == <<7296, 9000, 1716, 0, 0>>

\* A table slice whose last threshold is not 0.
WrongTerminalCdf == <<7296, 3819, 1716, 5>>

\* A strictly decreasing table slice of 17 thresholds.
TooManyCdf == [i \in 1 .. 17 |-> 2000 * (17 - i)]

MalformedTables == {NonMonotoneCdf, WrongTerminalCdf, TooManyCdf}

\* The first two and the last two symbol indices of an n-symbol table.
SymChoices(n) == {s \in 0 .. (n - 1) : s < 2 \/ s >= n - 2}

\* The adaptive table of the mixed runs: three symbols, the middle one
\* a narrow band around one half.
SpecTables == {<<16385, 16383, 0, 0>>}

\* Well-formed adaptive tables (thresholds strictly decreasing to 0, then
\* the counter): evenly spread and tightly packed ones, of 2, 3, 4 and 16
\* symbols, with counters below, at and next to the ceiling of 32.
AdaptTables ==
    { <<16384, 0, 0>>, <<1, 0, 31>>,
      <<2, 1, 0, 32>>, <<32767, 32766, 0, 0>>,
      <<7296, 3819, 1716, 0, 0>>,
      [i \in 1 .. 17 |-> IF i = 17 THEN 0 ELSE 2048 * (16 - i)],
      [i \in 1 .. 17 |-> IF i = 17 THEN 30 ELSE 16 - i] }

\* Adaptive tables of a caller that may break the contract.
AnyInitTables == SpecTables \cup {NonMonotoneCdf}

\* nsymbs of the adaptive table: every cell but the counter.
NSymbs(t) == Len(t) - 1

---------------------------------------------------------------------------
(* The state machine.                                                      *)

Call(op, s, f, t, ok) == [op |-> op, s |-> s, f |-> f, t |-> t, ok |-> ok]

InitWith(tables) ==
    /\ low = EncNew.low
    /\ rng = EncNew.rng
    /\ cnt = EncNew.cnt
    /\ precarry = EncNew.precarry
    /\ cdf \in tables
    /\ dcdf = cdf
    /\ status = "ok"
    /\ ndone = 0
    /\ out = <<>>
    /\ calls = <<>>
    /\ pre = EncNew
    /\ dec = NoDec
    /\ decoded = <<>>

Init == InitWith(SpecTables)
InitAdapt == InitWith(AdaptTables)
InitAny == InitWith(AnyInitTables)

\* The ways a call with result r can end, TRUE for a return and FALSE for
\* a panic: one, or both where the build decides.
Outcomes(r) == IF Wraps(r) THEN {FALSE, TRUE} ELSE {r.ok}

\* The encoder, and the table of Writer::symbol, that a call with result r
\* leaves when it ends the way ok says.
EncAfter(r, ok) == IF Wraps(r) /\ ok THEN r.wraps ELSE r.enc
CdfAfter(r, ok) == IF Wraps(r) /\ ok THEN r.wrapscdf ELSE r.cdf

\* The encoder after a call with result r that returned (ok) or panicked.
SetEnc(r, ok) ==
    /\ low' = EncAfter(r, ok).low
    /\ rng' = EncAfter(r, ok).rng
    /\ cnt' = EncAfter(r, ok).cnt
    /\ precarry' = EncAfter(r, ok).precarry
    /\ status' = IF ok THEN "ok" ELSE "panicked"
    /\ pre' = Enc

\* w.bool(val, f)
DoBool(val, f) ==
    LET r == WriterBool(Enc, val, f)
    IN  /\ status = "ok"
        /\ \E ok \in Outcomes(r) :
              /\ SetEnc(r, ok)
              /\ calls' = Append(calls, Call("bool", IF val THEN 1 ELSE 0,
                                             f, <<>>, ok))
        /\ UNCHANGED <<cdf, ndone, out, dec, dcdf, decoded>>

\* w.cdf(s, &t)
DoCdf(s, t) ==
    LET r == WriterCdf(Enc, s, t)
    IN  /\ status = "ok"
        /\ \E ok \in Outcomes(r) :
              /\ SetEnc(r, ok)
              /\ calls' = Append(calls, Call("cdf", s, 0, t, ok))
        /\ UNCHANGED <<cdf, ndone, out, dec, dcdf, decoded>>

\* w.symbol(s, &mut cdf, nsymbs) on the caller's adaptive table
DoSymbol(s) ==
    LET r == WriterSymbol(Enc, s, cdf, NSymbs(cdf))
    IN  /\ status = "ok"
        /\ \E ok \in Outcomes(r) :
              /\ SetEnc(r, ok)
              /\ cdf' = CdfAfter(r, ok)
              /\ calls' = Append(calls, Call("symbol", s, 0, cdf, ok))
        /\ UNCHANGED <<ndone, out, dec, dcdf, decoded>>

\* w.done()
DoDone ==
    LET r == WriterDone(Enc)
    IN  /\ status = "ok"
        /\ SetEnc(r, TRUE)
        /\ out' = r.out
        /\ ndone' = ndone + 1
        /\ UNCHANGED <<cdf, calls, dec, dcdf, decoded>>

(* A caller inside the contract: valid coding calls, then done() once,    *)
(* then a Reader over the returned bytes making the same calls in order.  *)

BoolCall ==
    /\ ndone = 0
    /\ Len(calls) < MaxCalls
    /\ \E val \in BOOLEAN, f \in FValues : DoBool(val, f)

CdfCall ==
    /\ ndone = 0
    /\ Len(calls) < MaxCalls
    /\ \E t \in CdfTables : \E s \in CdfSymbols(t) : DoCdf(s, t)

SymbolCall ==
    /\ ndone = 0
    /\ Len(calls) < MaxCalls
    /\ \E s \in 0 .. (NSymbs(cdf) - 1) : DoSymbol(s)

DoneCall ==
    /\ ndone = 0
    /\ DoDone

\* Reader::new(&b) on the bytes done() returned
ReaderNew ==
    /\ status = "ok"
    /\ ndone = 1
    /\ ~dec.live
    /\ dec' = od_ec_dec_init(out)
    /\ UNCHANGED <<encVars, cdf, status, ndone, out, calls, pre, dcdf, decoded>>

\* The call the Reader has to make next.
NextCall == calls[Len(decoded) + 1]

Decoding == status = "ok" /\ dec.live /\ Len(decoded) < Len(calls)

\* r.bool(f)
DecodeBool ==
    /\ Decoding
    /\ NextCall.op = "bool"
    /\ LET r == ReaderBool(dec, NextCall.f, out)
       IN  /\ dec' = r.dec
           /\ decoded' = Append(decoded, IF r.ret THEN 1 ELSE 0)
    /\ UNCHANGED <<encVars, cdf, status, ndone, out, calls, pre, dcdf>>

\* r.cdf(&t)
DecodeCdf ==
    /\ Decoding
    /\ NextCall.op = "cdf"
    /\ LET r == ReaderCdf(dec, NextCall.t, out)
       IN  /\ dec' = r.dec
           /\ decoded' = Append(decoded, r.ret)
    /\ UNCHANGED <<encVars, cdf, status, ndone, out, calls, pre, dcdf>>

\* The adaptive decode call on the decoder's own copy of the table
DecodeSymbol ==
    /\ Decoding
    /\ NextCall.op = "symbol"
    /\ LET r == ReaderSymbol(dec, dcdf, NSymbs(dcdf), out)
       IN  /\ dec' = r.dec
           /\ dcdf' = r.cdf
           /\ decoded' = Append(decoded, r.ret)
    /\ UNCHANGED <<encVars, cdf, status, ndone, out, calls, pre>>

Next ==
    \/ BoolCall
    \/ CdfCall
    \/ SymbolCall
    \/ DoneCall
    \/ ReaderNew
    \/ DecodeBool
    \/ DecodeCdf
    \/ DecodeSymbol

Spec == Init /\ [][Next]_vars

(* Adaptive calls over the well-formed tables of AdaptTables, with valid   *)
(* bit calls in between.                                                   *)

SymbolAdapt ==
    /\ ndone = 0
    /\ Len(calls) < MaxSymbols
    /\ \E s \in SymChoices(NSymbs(cdf)) : DoSymbol(s)

\* A valid bit call between the adaptive calls
BoolAdapt ==
    /\ ndone = 0
    /\ Len(calls) < MaxSymbols
    /\ \E val \in BOOLEAN, f \in AdaptFValues : DoBool(val, f)

NextAdapt ==
    \/ SymbolAdapt
    \/ BoolAdapt
    \/ DoneCall
    \/ ReaderNew
    \/ DecodeSymbol
    \/ DecodeBool

SpecAdapt == InitAdapt /\ [][NextAdapt]_vars

(* A long run of adaptive calls on one table.  The first symbol is any of *)
(* SymChoices; each later one is the one before plus the first plus one,   *)
(* modulo n: the last symbol first repeats it for ever, symbol 0 first     *)
(* goes round all the symbols.                                             *)

InitLong == InitWith(AdaptTables)

LongSymbols ==
    IF calls = <<>> THEN SymChoices(NSymbs(cdf))
    ELSE {(calls[Len(calls)].s + calls[1].s + 1) % NSymbs(cdf)}

SymbolLong ==
    /\ ndone = 0
    /\ Len(calls) < MaxLongCalls
    /\ \E s \in LongSymbols : DoSymbol(s)

NextLong == SymbolLong

SpecLong == InitLong /\ [][NextLong]_vars

(* A caller that may break the contract: any probability, malformed       *)
(* tables, any cell index, and calls after done().                         *)

BoolAny ==
    /\ Len(calls) < MaxAnyCalls
    /\ \E val \in BOOLEAN, f \in FAny : DoBool(val, f)

CdfAny ==
    /\ Len(calls) < MaxAnyCalls
    /\ \E t \in CdfTables \cup MalformedTables :
         \E s \in SymChoices(Len(t)) : DoCdf(s, t)

SymbolAny ==
    /\ Len(calls) < MaxAnyCalls
    /\ \E s \in 0 .. (NSymbs(cdf) - 1) : DoSymbol(s)

DoneAny ==
    /\ ndone < MaxDone
    /\ DoDone

NextAny ==
    \/ BoolAny
    \/ CdfAny
    \/ SymbolAny
    \/ DoneAny

SpecAny == InitAny /\ [][NextAny]_vars

---------------------------------------------------------------------------
(* Vocabulary of the properties.                                           *)

Ops == {calls[i].op : i \in 1 .. Len(calls)}

\* Every value the Reader has returned is the value the Writer was given.
DecodedMatches == \A i \in 1 .. Len(decoded) : decoded[i] = calls[i].s

\* The Reader has made every call the Writer made.
DecodedAll == dec.live /\ Len(decoded) = Len(calls)

\* Some buffered unit carries into the byte before it.
HasCarry(pc) == \E i \in 1 .. Len(pc) : pc[i] > 255

(* Numbers too wide for one machine word, as sequences of base-256 digits, *)
(* most significant first.                                                 *)

\* The digits of sum ds[i] * 256^(Len(ds) - i), each below 256, with one
\* more leading digit for the carry out of ds[1].
RECURSIVE NormFrom(_, _, _, _)
NormFrom(ds, i, c, acc) ==
    IF i = 0 THEN <<c>> \o acc
    ELSE NormFrom(ds, i - 1, (ds[i] + c) \div 256, <<(ds[i] + c) % 256>> \o acc)

Norm(ds) == NormFrom(ds, Len(ds), 0, <<>>)

\* a < b and a <= b for digit sequences of one length.
LexLess(a, b) ==
    \E i \in 1 .. Len(a) : a[i] < b[i] /\ \A j \in 1 .. (i - 1) : a[j] = b[j]

LexLeq(a, b) == a = b \/ LexLess(a, b)

\* x, a value of the window of an encoder whose cnt is c, as three digits
\* that continue precarry: bit c + 16 of the window is the lowest bit of
\* the next unit to be buffered, and the window has 16 + c bits below it.
WindowDigits(x, c) ==
    LET rem == Shl(x % Pow2(c + 16), -c)
    IN  <<Shr(x, c + 16), rem \div 256, rem % 256>>

\* The ends of the coding interval [low, low + rng) of encoder e, scaled
\* so that one unit is bit c of the window (the last digit's lowest bit).
IntervalLow(e) == Norm(e.precarry \o WindowDigits(e.low, e.cnt))
IntervalEnd(e) == Norm(e.precarry \o WindowDigits(e.low + e.rng, e.cnt))

Fill(n, b) == [i \in 1 .. n |-> b]

\* The stream o followed by n more bytes b, on the same scale.
Extended(o, n, b) == <<0>> \o o \o Fill(n, b)

\* Every continuation of the stream o lies in the interval of e: the
\* stream followed by zeros is not below low, and the stream followed by
\* ones for ever is below low + rng.
SelfSufficient(e, o) ==
    LET j == Len(o) - Len(e.precarry)
    IN  /\ j \in 0 .. 3
        /\ LexLeq(IntervalLow(e), Extended(o, 3 - j, 0))
        /\ LexLess(Extended(o, 3 - j, 255), IntervalEnd(e))

\* A table slice as the contract wants it: at most 16 thresholds, none
\* above 32768, never increasing, the last one 0.
WellFormedSlice(t) ==
    /\ Len(t) \in 1 .. 16
    /\ t[Len(t)] = 0
    /\ t[1] <= 32768
    /\ \A i \in 1 .. (Len(t) - 1) : t[i] >= t[i + 1]

\* The slice a logged symbol-coding call handed to od_ec_encode_cdf_q15.
PassedSlice(c) == IF c.op = "symbol" THEN SubSeq(c.t, 1, Len(c.t) - 1) ELSE c.t

---------------------------------------------------------------------------
(* Properties.                                                             *)

\* C1: bit round-trip. When every call on the Writer was bool(value, f)
\* with f in [1, 32767], the Reader, fed the bytes of done() and the same
\* f in the same order, returns every value exactly.
C1_BitRoundTrip == (Ops \subseteq {"bool"}) => DecodedMatches

C1_Witness ==
    /\ Ops = {"bool"}
    /\ DecodedAll
    /\ Len(calls) >= 3
    /\ {calls[i].s : i \in 1 .. Len(calls)} = {0, 1}
    /\ HasCarry(precarry)

\* C2: mixed-call round-trip. When the calls were bool and non-adaptive
\* cdf calls in any order, the Reader making the same calls in the same
\* order returns the exact sequence of bits and symbol indices.
C2_MixedRoundTrip == (Ops \subseteq {"bool", "cdf"}) => DecodedMatches

C2_Witness ==
    /\ DecodedAll
    /\ Len(calls) >= 3
    /\ calls[1].op = "cdf" /\ calls[2].op = "bool" /\ calls[3].op = "cdf"
    /\ calls[1].s # calls[3].s
    /\ Len(out) >= 2

\* C3: adaptive round-trip. When every call was symbol(s, cdf, n), the
\* adaptive decode calls starting from an identical copy of the table
\* return every symbol exactly, and once the Reader has made every call
\* its table equals the Writer's in every cell.
C3_AdaptiveRoundTrip ==
    (Ops \subseteq {"symbol"}) =>
        /\ DecodedMatches
        /\ DecodedAll => dcdf = cdf

C3_Witness ==
    /\ Ops = {"symbol"}
    /\ DecodedAll
    /\ Len(calls) >= 3
    /\ Cardinality({calls[i].s : i \in 1 .. Len(calls)}) >= 2
    /\ cdf # calls[1].t
    /\ dcdf = cdf

\* C4: range invariant. In the fresh encoder and after every valid call
\* 0x8000 <= rng <= 0xFFFF, and no call has panicked: neither the entry
\* assertion 32768 <= r nor a zero range handed to the normalisation.
C4_RangeInvariant == status = "ok" /\ 32768 <= rng /\ rng <= 65535

C4_Witness ==
    /\ ndone = 0
    /\ Len(calls) >= 2
    /\ rng > 32768
    /\ Len(precarry) >= 2

\* C5: CDF monotonicity. After any number of adaptive updates of a
\* well-formed table the thresholds never increase from one index to the
\* next and the terminal threshold cdf[n-1] is still 0 (forward CDF:
\* non-decreasing, ending at 32768).
C5_CdfMonotone ==
    /\ cdf[NSymbs(cdf)] = 0
    /\ \A i \in 1 .. (NSymbs(cdf) - 1) : cdf[i] >= cdf[i + 1]

C5_Witness ==
    /\ Len(calls) >= 4
    /\ \A i \in 1 .. Len(calls) : calls[i].op = "symbol" /\ calls[i].ok
    /\ NSymbs(cdf) = 16
    /\ cdf[17] = 32
    /\ \A i \in 1 .. 15 : cdf[i] # calls[1].t[i]

\* C6: length monotonicity. Before done(), the bytes done() would return
\* now are at least as many as it would have returned before the last
\* coding call, and at least as many as for the fresh encoder, which
\* finalises to the empty stream.
C6_LengthMonotone ==
    ndone = 0 =>
        /\ Len(od_ec_enc_done(Enc).out) >= Len(od_ec_enc_done(pre).out)
        /\ Len(od_ec_enc_done(Enc).out) >= Len(od_ec_enc_done(EncNew).out)
        /\ od_ec_enc_done(EncNew).out = <<>>

C6_Witness ==
    /\ ndone = 0
    /\ Len(calls) >= 2
    /\ Len(od_ec_enc_done(Enc).out) = Len(od_ec_enc_done(pre).out)
    /\ Len(od_ec_enc_done(pre).out) > Len(pre.precarry) + 1
    /\ Enc # pre

\* C7 (as claimed): every symbol-coding call that was handed a malformed
\* table slice (not monotone somewhere, last threshold not 0, or more
\* than 16 thresholds) panicked, whichever symbol it coded.
C7_MalformedRejected ==
    \A i \in 1 .. Len(calls) :
        (calls[i].op \in {"cdf", "symbol"} /\ ~WellFormedSlice(PassedSlice(calls[i])))
            => ~calls[i].ok

\* C8 (as claimed): once done() has returned, every further call on the
\* Writer panics and leaves low, rng, cnt, precarry and the returned
\* bytes as they are.
C8_FinalizeTerminal ==
    [][ndone >= 1 =>
          (status' = "panicked" /\ UNCHANGED <<low, rng, cnt, precarry, out>>)]_vars

\* C9: bool(value, f) with f = 0 or f >= 32768 panics, whatever the value
\* and the encoder state, and the panic leaves low, rng, cnt and precarry
\* as they were when the call was entered.
C9_BadProbabilityRejected ==
    \A i \in 1 .. Len(calls) :
        (calls[i].op = "bool" /\ calls[i].f \notin 1 .. 32767) =>
            /\ ~calls[i].ok
            /\ i = Len(calls)
            /\ status = "panicked"
            /\ Enc = pre

C9_Witness ==
    /\ Len(calls) = 2
    /\ calls[1].ok
    /\ calls[2].op = "bool" /\ calls[2].f = 32768 /\ calls[2].s = 1
    /\ status = "panicked"
    /\ ndone = 1
    /\ precarry # <<>>

\* C10: the bytes done() returned, followed by any bits at all, denote a
\* value of the coding interval [low, low + rng) the encoder had when
\* done() was entered; and the mask search of done() ended within 15
\* halvings.
C10_SelfSufficient ==
    ndone = 1 =>
        /\ SelfSufficient(pre, out)
        /\ DoneSearch(pre.low, pre.rng, 9, 32767).s - 9 <= 15

C10_Witness ==
    /\ ndone = 1
    /\ HasCarry(pre.precarry)
    /\ Len(out) = Len(pre.precarry) + 2
    /\ DoneSearch(pre.low, pre.rng, 9, 32767).s = 10
    /\ pre.low > 0

\* The threshold cells of an adaptive table: all but the counter cell.
Slice(t) == SubSeq(t, 1, NSymbs(t))

\* Well-formed slices to code with from any state: those of AdaptTables,
\* of 2, 3, 4 and 16 symbols.
WellFormedSlices == {Slice(t) : t \in AdaptTables}

\* The intervals od_ec_encode_cdf_q15 narrows [e.low, e.low + e.rng) to
\* for the symbols of t are non-empty, lie one after the other in the
\* order of the symbols and cover the interval from end to end.
Tiles(e, t) ==
    LET n == Len(t)
        I(s) == CdfInterval(e, s, t)
    IN  /\ \A s \in 0 .. (n - 1) :
              /\ I(s).rng >= 1
              /\ I(s).low >= e.low
              /\ I(s).low + I(s).rng <= e.low + e.rng
        /\ I(0).low = e.low
        /\ \A s \in 0 .. (n - 2) : I(s).low + I(s).rng = I(s + 1).low
        /\ I(n - 1).low + I(n - 1).rng = e.low + e.rng

\* C11: symbol sub-intervals tile the current interval. In every encoder
\* state reached by valid calls (rng >= 0x8000) and for every well-formed
\* table, the intervals the cdf call narrows to for s = 0 .. n-1, before
\* the normalisation, are non-empty, disjoint, ordered by s and their
\* union is [low, low + rng); so each call narrows to a sub-interval,
\* and the interval of the symbol coded is the one the call normalised.
C11_SubIntervalsTile ==
    /\ ndone = 0 => \A t \in WellFormedSlices : Tiles(Enc, t)
    /\ (ndone = 0 /\ Len(calls) > 0 /\ calls[Len(calls)].op \in {"cdf", "symbol"}) =>
          LET c == calls[Len(calls)]
              I == CdfInterval(pre, c.s, PassedSlice(c))
          IN  Enc = od_ec_enc_normalize(pre, I.low, U16(I.rng)).enc

C11_Witness ==
    /\ ndone = 0
    /\ Len(calls) >= 2
    /\ calls[Len(calls)].op = "cdf" /\ calls[Len(calls)].ok
    /\ low > 0 /\ rng > 32768 /\ rng % 256 # 0
    /\ \E t \in WellFormedSlices :
          /\ Len(t) = 16
          /\ CdfInterval(Enc, 15, t).rng = 1
          /\ Tiles(Enc, t)

\* ds + v * 256^(Len(ds) - pos) for a number ds given by its base-256
\* digits, most significant first; the first digit takes what is carried
\* out of the others and is not reduced.
RECURSIVE AddAt(_, _, _)
AddAt(ds, pos, v) ==
    IF v = 0 THEN ds
    ELSE IF pos = 1 THEN [ds EXCEPT ![1] = ds[1] + v]
    ELSE AddAt([ds EXCEPT ![pos] = (ds[pos] + v) % 256], pos - 1,
               (ds[pos] + v) \div 256)

\* The sum over i of pc[i] * 256^(Len(pc) - i), added up one unit at a
\* time from the first unit on, as Len(pc) digits after a leading digit.
RECURSIVE SumFrom(_, _, _)
SumFrom(pc, i, acc) ==
    IF i > Len(pc) THEN acc
    ELSE SumFrom(pc, i + 1, AddAt(acc, i + 1, pc[i]))

PrecarrySum(pc) == SumFrom(pc, 1, Fill(Len(pc) + 1, 0))

\* C12: carry resolution is exact. The bytes done() returned are the
\* base-256 digits, most significant first, of the sum over i of
\* precarry[i] * 256^(n-1-i) for the buffer as done()'s flush left it;
\* the sum is below 256^n, so no carry is left after position 0.
C12_CarryExact ==
    ndone = 1 =>
        /\ Len(out) = Len(precarry)
        /\ PrecarrySum(precarry) = <<0>> \o out

C12_Witness ==
    /\ ndone = 1
    /\ Len(out) >= 3
    /\ \E i \in 2 .. (Len(out) - 1) :
          /\ precarry[i + 1] > 255
          /\ precarry[i] = 255 /\ out[i] = 0
          /\ out[i - 1] = precarry[i - 1] + 1

\* An adaptive table as the contract of Writer::symbol wants it: 2 to 16
\* thresholds below 32768, strictly decreasing, the last one 0, and a
\* counter of at most 32.
WellFormedTable(t) ==
    /\ NSymbs(t) \in 2 .. 16
    /\ t[1] < 32768
    /\ t[NSymbs(t)] = 0
    /\ \A i \in 1 .. (NSymbs(t) - 1) : t[i] > t[i + 1]
    /\ t[NSymbs(t) + 1] <= 32

\* C13: adaptive sequences never trip a precondition. From a well-formed
\* table, after any sequence of symbol calls with s < n and valid bit
\* calls in between, no call has panicked, the table is still strictly
\* decreasing with terminal 0 (no symbol has probability zero), and a
\* further call passes the assertions for every symbol.
C13_AdaptiveNeverTrips ==
    /\ status = "ok"
    /\ \A i \in 1 .. Len(calls) : calls[i].ok
    /\ WellFormedTable(cdf)
    /\ ndone = 0 =>
          \A s \in 0 .. (NSymbs(cdf) - 1) : WriterCdf(Enc, s, Slice(cdf)).ok

C13_Witness ==
    /\ ndone = 0
    /\ Len(calls) >= 4
    /\ Ops = {"bool", "symbol"}
    /\ NSymbs(cdf) = 16
    /\ \E k \in 1 .. Len(calls) : calls[k].op = "symbol" /\ calls[k].t[1] = 15
    /\ \E i \in 1 .. 15 : cdf[i] = cdf[i + 1] + 1
    /\ cdf[1] > 15

\* The encoder states a table update is compared across.
OtherEncoders == {EncNew, Enc}

\* C14: encode before update. After symbol(s, cdf, n) the encoder is in
\* the state the non-adaptive cdf(s, T) leaves it in, T being the first n
\* cells of the table as it was before the call; the table afterwards is
\* the update of the table before, whatever the encoder state.
C14_EncodeBeforeUpdate ==
    (ndone = 0 /\ Len(calls) > 0 /\ calls[Len(calls)].op = "symbol") =>
        LET c == calls[Len(calls)]
            n == NSymbs(c.t)
        IN  /\ c.ok
            /\ Enc = WriterCdf(pre, c.s, Slice(c.t)).enc
            /\ cdf = update_cdf(c.t, c.s, n)
            /\ \A e \in OtherEncoders : WriterSymbol(e, c.s, c.t, n).cdf = cdf

C14_Witness ==
    /\ ndone = 0
    /\ Len(calls) >= 3
    /\ calls[Len(calls)].op = "symbol"
    /\ calls[Len(calls)].t[NSymbs(cdf) + 1] > 0
    /\ calls[Len(calls)].s > 0
    /\ Enc # WriterCdf(pre, calls[Len(calls)].s, Slice(cdf)).enc
    /\ Enc # EncNew /\ pre # EncNew
    /\ Len(precarry) > Len(pre.precarry)

\* The counter cell of an adaptive table.
Counter(t) == t[NSymbs(t) + 1]

\* The table before the first call and the table after call k.
FirstTable == IF calls = <<>> THEN cdf ELSE calls[1].t
TableAfter(k) == IF k < Len(calls) THEN calls[k + 1].t ELSE cdf

Min(a, b) == IF a < b THEN a ELSE b

\* C15: usage counter ceiling. Every symbol call adds exactly 1 to the
\* counter cell cdf[n] while it is below 32 and leaves it as it is once
\* it is 32; from a counter of 0 the counter is min(k, 32) after k calls,
\* and it never exceeds 32.
C15_CounterCeiling ==
    /\ Counter(cdf) <= 32
    /\ \A k \in 1 .. Len(calls) :
          Counter(TableAfter(k)) =
              IF Counter(calls[k].t) < 32 THEN Counter(calls[k].t) + 1
              ELSE Counter(calls[k].t)
    /\ Counter(FirstTable) = 0 => Counter(cdf) = Min(Len(calls), 32)

C15_Witness ==
    /\ Len(calls) >= 34
    /\ Counter(FirstTable) = 0
    /\ Counter(cdf) = 32
    /\ Counter(calls[32].t) = 31 /\ Counter(calls[33].t) = 32
    /\ NSymbs(cdf) = 16
    /\ Cardinality({calls[k].s : k \in 1 .. Len(calls)}) = 16

\* The probability table t gives symbol s, times 32768: the threshold
\* before s, or 32768 for the first symbol, less the threshold of s.
Prob(t, s) == (IF s = 0 THEN 32768 ELSE t[s]) - t[s + 1]

\* The table leaves the symbols before s at least 32 * s of 32768 and the
\* symbols after s at least 32 * (n - 1 - s): the thresholds around s are
\* not beyond the targets the update draws them to.
AboveFloor(t, s) ==
    /\ s > 0 => t[s] <= 32768 - 32 * s
    /\ s < NSymbs(t) - 1 => t[s + 1] >= 32 * (NSymbs(t) - 1 - s)

\* C16 (as claimed): after symbol(s, cdf, n) on any well-formed table the
\* probability the table gives s is not smaller than before the call.
C16_FavoursCoded ==
    (Len(calls) > 0 /\ calls[Len(calls)].op = "symbol") =>
        LET c == calls[Len(calls)]
        IN  Prob(cdf, c.s) >= Prob(c.t, c.s)

\* C16 (amended): after symbol(s, cdf, n) on a well-formed table that
\* leaves the symbols before s at least 32 * s of 32768 in all and the
\* symbols after s at least 32 * (n - 1 - s), the threshold before s has
\* not gone down, the threshold of s has not gone up, and so the
\* probability of s is not smaller than before the call.
C16_FavoursCodedAboveFloor ==
    (Len(calls) > 0 /\ calls[Len(calls)].op = "symbol") =>
        LET c == calls[Len(calls)]
        IN  AboveFloor(c.t, c.s) =>
                /\ c.s > 0 => cdf[c.s] >= c.t[c.s]
                /\ cdf[c.s + 1] <= c.t[c.s + 1]
                /\ Prob(cdf, c.s) >= Prob(c.t, c.s)

C16_Witness ==
    /\ Len(calls) >= 3
    /\ calls[Len(calls)].op = "symbol"
    /\ LET c == calls[Len(calls)]
       IN  /\ NSymbs(c.t) = 16
           /\ c.s = 1
           /\ AboveFloor(c.t, c.s)
           /\ c.t # calls[1].t
           /\ cdf[c.s] > c.t[c.s]
           /\ cdf[c.s + 1] < c.t[c.s + 1]
           /\ Prob(cdf, c.s) > Prob(c.t, c.s)

\* a is the beginning of b, entry for entry.
IsPrefix(a, b) == Len(a) <= Len(b) /\ SubSeq(b, 1, Len(a)) = a

\* C17: the pre-carry buffer is append-only. Every step, a coding call or
\* done(), leaves the entries precarry had as the unchanged beginning of
\* what it has afterwards (the carries go to the returned bytes only),
\* and one coding call appends at most two entries.
C17_PrecarryAppendOnly ==
    [][/\ IsPrefix(precarry, precarry')
       /\ ndone' = ndone => Len(precarry') <= Len(precarry) + 2]_vars

C17_Witness ==
    /\ ndone = 1
    /\ Len(calls) >= 3
    /\ HasCarry(pre.precarry)
    /\ Len(pre.precarry) > Len(calls)
    /\ Len(precarry) > Len(pre.precarry)
    /\ out # precarry

\* Bit probabilities to compare the two calls on from any state.
BitProbs == FValues \cup {128, 16384, 32766}

\* The symbol of the two-symbol table that stands for a bit.
BitSymbol(val) == IF val THEN 1 ELSE 0

\* C18: a bit is a two-symbol CDF. From every encoder state reached by
\* valid calls and for every f in [1, 32767], bool(value, f) leaves the
\* encoder exactly as cdf(s, [f, 0]) does, s = 1 for true and s = 0 for
\* false; true takes the upper part of the interval, of width
\* ((rng >> 8) * f) >> 7, and false the lower remainder.
C18_BitIsTwoSymbolCdf ==
    /\ ndone = 0 =>
          \A f \in BitProbs, val \in BOOLEAN :
              LET v == Shr(Shr(rng, 8) * f, 7)
                  I == CdfInterval(Enc, BitSymbol(val), <<f, 0>>)
                  b == WriterBool(Enc, val, f)
              IN  /\ b.ok
                  /\ b = WriterCdf(Enc, BitSymbol(val), <<f, 0>>)
                  /\ I = IF val THEN [low |-> low + rng - v, rng |-> v]
                         ELSE [low |-> low, rng |-> rng - v]
    /\ (ndone = 0 /\ Len(calls) > 0 /\ calls[Len(calls)].op = "bool") =>
          LET c == calls[Len(calls)]
          IN  Enc = WriterCdf(pre, c.s, <<c.f, 0>>).enc

C18_Witness ==
    /\ ndone = 0
    /\ Len(calls) >= 2
    /\ calls[Len(calls)].op = "bool" /\ calls[Len(calls)].s = 1
    /\ pre.rng > 32768 /\ pre.rng % 256 # 0
    /\ Len(precarry) = Len(pre.precarry) + 2
    /\ Enc = WriterCdf(pre, 1, <<calls[Len(calls)].f, 0>>).enc
    /\ Enc # WriterCdf(pre, 0, <<calls[Len(calls)].f, 0>>).enc

\* A shift the machine executes: not negative, below the operand's width.
ShiftOk(x) == 0 <= x.by /\ x.by < x.bits

\* x fits a u32.
FitsU32(x) == 0 <= x /\ x \div 65536 < 65536

\* The intervals the valid calls would narrow encoder e to: the bit calls
\* over BitProbs and the symbol calls over the well-formed slices.
NextIntervals(e) ==
    {BoolInterval(e.low, e.rng, val, f) : val \in BOOLEAN, f \in BitProbs}
    \cup UNION {{CdfInterval(e, s, t) : s \in 0 .. (Len(t) - 1)} :
                    t \in WellFormedSlices}

\* C19: window bound. In every state reached by valid calls
\* -9 <= cnt <= -1 and low + rng <= 2^(cnt + 25), so low < 2^24; every
\* unit in precarry is at most 0x1FF; the window every call has left,
\* computed without wrapping, fits its u32; and in whatever valid call or
\* done() comes next no u32 addition overflows, the narrowed range fits
\* its u16, and every shift amount is within 0 .. width - 1.
C19_WindowBound ==
    /\ -9 <= cnt /\ cnt <= -1
    /\ low + rng <= Pow2(cnt + 25)
    /\ low < Pow2(24)
    /\ \A i \in 1 .. Len(precarry) : precarry[i] <= 511
    /\ ndone = 0 =>
          /\ \A I \in NextIntervals(Enc) :
                /\ I.low >= low /\ FitsU32(I.low + I.rng)
                /\ I.rng \in 1 .. 65535
                /\ \A x \in NormalizeShifts(Enc, U16(I.rng)) : ShiftOk(x)
          /\ FitsU32(low) /\ FitsU32(low + 32767) /\ FitsU32(low + rng)
          /\ \A x \in DoneShifts(Enc) : ShiftOk(x)

C19_Witness ==
    /\ ndone = 0
    /\ Len(calls) >= 2
    /\ cnt = -1
    /\ low >= Pow2(23)
    /\ \E i \in 1 .. Len(precarry) : precarry[i] >= 255
    /\ \E I \in NextIntervals(Enc) :
          {x.by : x \in NormalizeShifts(Enc, U16(I.rng))} = {15, 7, 8}
    /\ {x.by : x \in DoneShifts(Enc)} = {15, 8, 7}

=============================================================================
